---- MODULE Spec2Model ----
(***************************************************************************)
(* Model of the bearer-token validation dependency of src/main.py:         *)
(* validate_microsoft_token (lines 66-153) and the protected endpoint      *)
(* hello_world (lines 167-188).                                            *)
(*                                                                         *)
(* validate_microsoft_token is an `async def` without a single await and   *)
(* with a blocking requests.get: FastAPI runs it on the event loop of the  *)
(* one uvicorn server process started by main(), so a validation, once     *)
(* begun, runs to its end before another request is served.  The identity  *)
(* provider (its published key set) and the wall clock are the             *)
(* environment and change at any moment.                                   *)
(***************************************************************************)
EXTENDS Integers, Sequences, FiniteSets, TLC

VARIABLES settings, published, now, pc, token, header, jwks, key, claims,
          outcome, result, fetches, missLog, status, handlerRan

vars == <<settings, published, now, pc, token, header, jwks, key, claims,
          outcome, result, fetches, missLog, status, handlerRan>>

(* ------------------------------ bounds -------------------------------- *)

\* number of requests of one burst
NCalls == 2

\* the wall clock runs from 0 to MaxTime
MaxTime == 2

Calls == 1..NCalls

(* ---------------------- Python values: Optional ----------------------- *)

\* Python's None and a present value; dict.get and os.getenv return either
None == <<>>

Some(x) == <<x>>

Val(o) == o[1]

(* ------------------------- provider's keys ---------------------------- *)

\* a JWK of the provider: its kid and its key material
K1 == [kid |-> "k1", mat |-> "m1"]

K2 == [kid |-> "k2", mat |-> "m2"]

\* the key sets the provider publishes over time (kids are unique in a set)
KeySets == {<<K1>>, <<K2>>, <<K1, K2>>}

(* ------------------------------ tokens -------------------------------- *)

\* header kid of a token: absent, or the kid of a key
Kids == {None, Some("k1"), Some("k2")}

\* what the signature segment was made with: the key K1 or no provider key
Sigs == {"m1", "forged"}

\* the iss claims tried: the two issuer strings of the configured tenant,
\* one of another tenant, a proper prefix, a proper suffix, and no iss at all
Issuers ==
    { None,
      Some("https://sts.windows.net/t1/"),
      Some("https://login.microsoftonline.com/t1/v2.0"),
      Some("https://login.microsoftonline.com/t2/v2.0"),
      Some("https://sts.windows.net/t1"),
      Some("login.microsoftonline.com/t1/v2.0") }

\* the aud claims tried: the client id, a prefix, an extension, another
\* case, and no aud at all
Audiences ==
    { None, Some("abc123"), Some("abc12"), Some("abc1234"), Some("ABC123") }

\* the exp claims tried
Expiries == {1}

Payloads == [iss : Issuers, aud : Audiences, exp : Expiries]

\* a bearer credential: a string that is no compact token at all
\* ("invalid_token_here"), or header.payload.signature
Tokens ==
    {[wellformed |-> FALSE, kid |-> None, sig |-> "forged",
      payload |-> [iss |-> None, aud |-> None, exp |-> 1]]}
    \cup [wellformed : {TRUE}, kid : Kids, sig : Sigs, payload : Payloads]

(* ----------------------------- settings ------------------------------- *)

\* get_settings: the two environment variables, read once and cached
Settings == [tenant_id : {None, Some(""), Some("t1")},
             client_id : {None, Some("abc123")}]

\* Python truthiness of an Optional[str]: `not x`
Falsy(x) == x = None \/ x = Some("")

(* ---------------------------- exceptions ------------------------------ *)

HTTPException(status_code, detail) ==
    [type |-> "HTTPException", status |-> status_code, detail |-> detail]

\* any other exception raised inside the try block
Exc(type) == [type |-> type, status |-> 0, detail |-> ""]

\* a handler that lets every exception through as it is
ExceptClauseNoWrap(e) == e

\* except HTTPException: raise / except Exception: raise HTTPException(401)
ExceptClause(e) ==
    IF e.type = "HTTPException" THEN e
    ELSE HTTPException(401, "Token validation failed")

(* ------------------------- pure steps of the code --------------------- *)

\* if not tenant_id or not client_id
ConfigMissing(s) == Falsy(s.tenant_id) \/ Falsy(s.client_id)

\* pyjwt.get_unverified_header: the header dict, or DecodeError
HeaderDecodes(t) == t.wellformed

\* a decode that reads the payload without checking the signature
SignatureNotChecked(t, k) == TRUE

\* authlib jwt.decode(token, key): the signature is checked with the key
SignatureVerifies(t, k) == t.sig = k.mat

\* f"https://sts.windows.net/{tenant_id}/"
ExpectedIssuerV1(tenant) == "https://sts.windows.net/" \o tenant \o "/"

\* f"https://login.microsoftonline.com/{tenant_id}/v2.0"
ExpectedIssuerV2(tenant) ==
    "https://login.microsoftonline.com/" \o tenant \o "/v2.0"

\* s starts with p
StartsWith(s, p) == Len(s) >= Len(p) /\ SubSeq(s, 1, Len(p)) = p

\* an issuer test that accepts whatever begins like the v1 issuer without
\* its final slash or like the v2 issuer
IssuerOkLoose(iss, tenant) ==
    /\ iss # None
    /\ \/ StartsWith(Val(iss), "https://sts.windows.net/" \o tenant)
       \/ StartsWith(Val(iss), ExpectedIssuerV2(tenant))

\* an issuer test that knows the v2 issuer only
IssuerOkV2Only(iss, tenant) == iss = Some(ExpectedIssuerV2(tenant))

\* token_issuer in [expected_issuer_v1, expected_issuer_v2]
IssuerOk(iss, tenant) ==
    iss \in {Some(ExpectedIssuerV1(tenant)), Some(ExpectedIssuerV2(tenant))}

\* an audience test by prefix
AudienceOkPrefix(aud, client) ==
    aud # None /\ StartsWith(Val(aud), Val(client))

\* token_audience == client_id
AudienceOk(aud, client) == aud = client

(* ------------------------------ state --------------------------------- *)

\* where a call of validate_microsoft_token stands
Stages == {"Queued", "Received", "HeaderParsed", "Fetching", "KeyResolved",
           "SignatureVerified", "ClaimsValidated", "Accepted", "Rejected"}

Terminal == {"Accepted", "Rejected"}

TypeOK ==
    /\ settings \in Settings
    /\ published \in KeySets
    /\ now \in 0..MaxTime
    /\ pc \in [Calls -> Stages]
    /\ \A c \in Calls :
        /\ token[c] = None \/ Val(token[c]) \in Tokens
        /\ header[c] = None \/ Val(header[c]) \in Kids
        /\ jwks[c] = None \/ Val(jwks[c]) \in KeySets
        /\ key[c] = None \/ Val(key[c]) \in {K1, K2}
        /\ claims[c] = None \/ Val(claims[c]) \in Payloads
        /\ result[c] = None \/ Val(result[c]) \in Payloads
        /\ missLog[c] \in Kids
        /\ fetches[c] \in 0..2
        /\ status[c] \in {0, 200, 401, 500}
        /\ handlerRan[c] \in BOOLEAN

\* the process has started, the settings are what the environment held, and
\* a burst of requests is waiting to be served
Init ==
    /\ settings \in Settings
    /\ published \in KeySets
    /\ now = 0
    /\ pc = [c \in Calls |-> "Queued"]
    /\ token = [c \in Calls |-> None]
    /\ header = [c \in Calls |-> None]
    /\ jwks = [c \in Calls |-> None]
    /\ key = [c \in Calls |-> None]
    /\ claims = [c \in Calls |-> None]
    /\ outcome = [c \in Calls |-> None]
    /\ result = [c \in Calls |-> None]
    /\ fetches = [c \in Calls |-> 0]
    /\ missLog = [c \in Calls |-> None]
    /\ status = [c \in Calls |-> 0]
    /\ handlerRan = [c \in Calls |-> FALSE]

(* --------------------------- environment ------------------------------ *)

\* the provider rotates its keys: the document behind jwks_url changes
RotateKeys ==
    /\ \E ks \in KeySets \ {published} : published' = ks
    /\ UNCHANGED <<settings, now, pc, token, header, jwks, key, claims,
                   outcome, result, fetches, missLog, status, handlerRan>>

\* time passes
Tick ==
    /\ now < MaxTime
    /\ now' = now + 1
    /\ UNCHANGED <<settings, published, pc, token, header, jwks, key, claims,
                   outcome, result, fetches, missLog, status, handlerRan>>

(* ---------------------- validate_microsoft_token ---------------------- *)

\* the coroutine has no await: the event loop serves one request at a time
LoopIsFree == \A d \in Calls : token[d] = None

\* the exception e leaves the try block of call c
Raise(c, e) ==
    /\ pc' = [pc EXCEPT ![c] = "Rejected"]
    /\ outcome' = [outcome EXCEPT ![c] = Some(ExceptClause(e))]

\* token = credentials.credentials; settings = get_settings();
\* if not tenant_id or not client_id: raise HTTPException(500)
Begin(c) ==
    /\ pc[c] = "Queued"
    /\ LoopIsFree
    /\ \E t \in Tokens : token' = [token EXCEPT ![c] = Some(t)]
    /\ IF ConfigMissing(settings)
       THEN Raise(c, HTTPException(500, "Azure configuration missing"))
       ELSE /\ pc' = [pc EXCEPT ![c] = "Received"]
            /\ UNCHANGED outcome
    /\ UNCHANGED <<settings, published, now, header, jwks, key, claims,
                   result, fetches, missLog, status, handlerRan>>

\* header = pyjwt.get_unverified_header(token)
ParseHeader(c) ==
    /\ pc[c] = "Received"
    /\ IF HeaderDecodes(Val(token[c]))
       THEN /\ header' = [header EXCEPT ![c] = Some(Val(token[c]).kid)]
            /\ pc' = [pc EXCEPT ![c] = "HeaderParsed"]
            /\ UNCHANGED outcome
       ELSE /\ Raise(c, Exc("DecodeError"))
            /\ UNCHANGED header
    /\ UNCHANGED <<settings, published, now, token, jwks, key, claims,
                   result, fetches, missLog, status, handlerRan>>

\* a fetch that is skipped when a call of the burst has fetched already
FetchesAfterIssueShared(c) ==
    IF \E d \in Calls : fetches[d] > 0 THEN fetches[c] ELSE fetches[c] + 1

\* every call sends its own GET
FetchesAfterIssue(c) == fetches[c] + 1

\* requests.get(jwks_url): the request is sent
IssueFetch(c) ==
    /\ pc[c] = "HeaderParsed"
    /\ fetches' = [fetches EXCEPT ![c] = FetchesAfterIssue(c)]
    /\ pc' = [pc EXCEPT ![c] = "Fetching"]
    /\ UNCHANGED <<settings, published, now, token, header, jwks, key,
                   claims, outcome, result, missLog, status, handlerRan>>

\* what a GET of jwks_url can end in
FetchResults == {"ok", "ConnectionError", "HTTPError", "JSONDecodeError"}

\* a lookup that takes the first key whatever its kid
FindKeyFirst(keys, kid) == IF keys = << >> THEN None ELSE Some(Head(keys))

\* for jwk in jwks["keys"]: if jwk["kid"] == header["kid"]: first match
RECURSIVE FindKey(_, _)
FindKey(keys, kid) ==
    IF keys = << >> THEN None
    ELSE IF Head(keys).kid = kid THEN Some(Head(keys))
    ELSE FindKey(Tail(keys), kid)

\* a miss that sends the call back to fetch the key set again
OnKeyMissRefetch(c) ==
    /\ pc' = [pc EXCEPT ![c] = "HeaderParsed"]
    /\ UNCHANGED outcome

\* if not key: raise HTTPException(401, "Invalid token key")
OnKeyMiss(c) == Raise(c, HTTPException(401, "Invalid token key"))

\* response = requests.get(...); response.raise_for_status();
\* jwks = response.json(); then the loop over jwks["keys"] and `if not key`.
\* header["kid"] raises KeyError when the header has no kid (in the loop, or
\* in the message of the miss when the loop had nothing to compare)
ResolveKey(c) ==
    /\ pc[c] = "Fetching"
    /\ \E r \in FetchResults :
        IF r # "ok"
        THEN /\ Raise(c, Exc(r))
             /\ UNCHANGED <<jwks, key, missLog>>
        ELSE /\ jwks' = [jwks EXCEPT ![c] = Some(published)]
             /\ IF Val(header[c]) = None
                THEN /\ Raise(c, Exc("KeyError"))
                     /\ UNCHANGED <<key, missLog>>
                ELSE LET k == FindKey(published, Val(Val(header[c]))) IN
                     IF k = None
                     THEN /\ OnKeyMiss(c)
                          /\ missLog' = [missLog EXCEPT ![c] = Val(header[c])]
                          /\ UNCHANGED key
                     ELSE /\ key' = [key EXCEPT ![c] = k]
                          /\ pc' = [pc EXCEPT ![c] = "KeyResolved"]
                          /\ UNCHANGED <<outcome, missLog>>
    /\ UNCHANGED <<settings, published, now, token, header, claims,
                   result, fetches, status, handlerRan>>

\* claims = jwt.decode(token, key): BadSignatureError, or the payload;
\* decode checks nothing else (claims.validate() is not called)
DecodeToken(c) ==
    /\ pc[c] = "KeyResolved"
    /\ IF SignatureVerifies(Val(token[c]), Val(key[c]))
       THEN /\ claims' = [claims EXCEPT ![c] = Some(Val(token[c]).payload)]
            /\ pc' = [pc EXCEPT ![c] = "SignatureVerified"]
            /\ UNCHANGED outcome
       ELSE /\ Raise(c, Exc("BadSignatureError"))
            /\ UNCHANGED claims
    /\ UNCHANGED <<settings, published, now, token, header, jwks, key,
                   result, fetches, missLog, status, handlerRan>>

\* if token_issuer not in [...]: raise; if token_audience != client_id: raise
ValidateClaims(c) ==
    /\ pc[c] = "SignatureVerified"
    /\ IF ~IssuerOk(Val(claims[c]).iss, Val(settings.tenant_id))
       THEN Raise(c, HTTPException(401, "Invalid token issuer"))
       ELSE IF ~AudienceOk(Val(claims[c]).aud, settings.client_id)
       THEN Raise(c, HTTPException(401, "Invalid token audience"))
       ELSE /\ pc' = [pc EXCEPT ![c] = "ClaimsValidated"]
            /\ UNCHANGED outcome
    /\ UNCHANGED <<settings, published, now, token, header, jwks, key,
                   claims, result, fetches, missLog, status, handlerRan>>

\* return claims
ReturnClaims(c) ==
    /\ pc[c] = "ClaimsValidated"
    /\ result' = [result EXCEPT ![c] = claims[c]]
    /\ pc' = [pc EXCEPT ![c] = "Accepted"]
    /\ UNCHANGED <<settings, published, now, token, header, jwks, key,
                   claims, outcome, fetches, missLog, status, handlerRan>>

(* ----------------------- the protected endpoint ----------------------- *)

\* an endpoint that calls its handler whatever the dependency did
HandlerRunsAlways(c) == TRUE

\* hello_world(claims = Depends(validate_microsoft_token)): the handler runs
\* only with the claims the dependency returned
HandlerRuns(c) == pc[c] = "Accepted"

\* the status line of the response: the handler's 200, or the status of
\* the HTTPException the dependency raised
StatusOf(c) == IF pc[c] = "Accepted" THEN 200 ELSE Val(outcome[c]).status

\* the response goes out, the locals of the call and its exception are
\* gone and the event loop takes the next request
Respond(c) ==
    /\ pc[c] \in Terminal
    /\ status[c] = 0
    /\ status' = [status EXCEPT ![c] = StatusOf(c)]
    /\ handlerRan' = [handlerRan EXCEPT ![c] = HandlerRuns(c)]
    /\ token' = [token EXCEPT ![c] = None]
    /\ header' = [header EXCEPT ![c] = None]
    /\ jwks' = [jwks EXCEPT ![c] = None]
    /\ key' = [key EXCEPT ![c] = None]
    /\ claims' = [claims EXCEPT ![c] = None]
    /\ outcome' = [outcome EXCEPT ![c] = None]
    /\ result' = [result EXCEPT ![c] = None]
    /\ UNCHANGED <<settings, published, now, pc, fetches, missLog>>

Next ==
    \/ RotateKeys
    \/ Tick
    \/ \E c \in Calls :
        \/ Begin(c)
        \/ ParseHeader(c)
        \/ IssueFetch(c)
        \/ ResolveKey(c)
        \/ DecodeToken(c)
        \/ ValidateClaims(c)
        \/ ReturnClaims(c)
        \/ Respond(c)

Spec == Init /\ [][Next]_vars

(* ============================ properties ============================== *)

\* the token of a call that is being served
Tok(c) == Val(token[c])

\* both settings are present: tenant "t1", client "abc123"
Configured ==
    settings = [tenant_id |-> Some("t1"), client_id |-> Some("abc123")]

\* the two issuer strings of tenant "t1", written out
TenantIssuers ==
    { Some("https://sts.windows.net/t1/"),
      Some("https://login.microsoftonline.com/t1/v2.0") }

\* the keys of a key set, as a set
KeysOf(ks) == {ks[i] : i \in 1..Len(ks)}

\* the call's token names, and is signed with, a key of the fetched key set
SignedByFetchedKey(c) ==
    /\ jwks[c] # None
    /\ Tok(c).wellformed
    /\ Tok(c).kid # None
    /\ \E k \in KeysOf(Val(jwks[c])) :
          k.kid = Val(Tok(c).kid) /\ k.mat = Tok(c).sig

\* the call returned or raised and its response has not gone out yet
Ended(c) == pc[c] \in Terminal /\ token[c] # None

RECURSIVE SumOver(_, _)
SumOver(f, S) ==
    IF S = {} THEN 0
    ELSE LET x == CHOOSE y \in S : TRUE IN f[x] + SumOver(f, S \ {x})

\* GETs sent to the provider by the whole burst
TotalFetches == SumOver(fetches, Calls)

\* GETs sent and not yet answered
InFlight == Cardinality({c \in Calls : pc[c] = "Fetching"})

(* --------------------------------- C1 --------------------------------- *)

ValidToken(c) ==
    /\ Configured
    /\ SignedByFetchedKey(c)
    /\ Tok(c).payload.iss \in TenantIssuers
    /\ Tok(c).payload.aud = Some("abc123")
    /\ Tok(c).payload.exp > now

\* C1: a call whose token is signed by a key of the key set it fetched (the
\* header kid names that key and the signature verifies with it), whose iss
\* is one of the two issuer strings of the tenant, whose aud is the client
\* id and whose exp lies in the future, with both settings present, ends
\* Accepted and returns the payload of the token unchanged.
C1_ValidTokenAccepted ==
    \A c \in Calls :
        (Ended(c) /\ ValidToken(c))
            => /\ pc[c] = "Accepted"
               /\ result[c] = Some(Tok(c).payload)

C1_Witness ==
    \E c \in Calls :
        /\ Ended(c) /\ ValidToken(c)
        /\ Tok(c).payload.iss = Some("https://sts.windows.net/t1/")
        /\ result[c] = Some(Tok(c).payload)

(* --------------------------------- C2 --------------------------------- *)

\* C2: no call returns claims for a token whose exp is earlier than the
\* current time.
C2_ExpiredNeverAccepted ==
    [][\A c \in Calls :
          (pc[c] # "Accepted" /\ pc'[c] = "Accepted")
              => ~(Tok(c).payload.exp < now)]_vars

(* --------------------------------- C3 --------------------------------- *)

ClaimDetails == {"Invalid token issuer", "Invalid token audience"}

\* the call has come to the issuer or audience check
ClaimsChecked(c) ==
    \/ pc[c] \in {"ClaimsValidated", "Accepted"}
    \/ outcome[c] # None /\ Val(outcome[c]).detail \in ClaimDetails

\* C3: a call whose token's signature does not verify with the key matched
\* by its kid is rejected with status 401 and has never come to the issuer
\* or audience check; a call comes to these checks only with a signature
\* that verified.
C3_BadSignatureRejected ==
    \A c \in Calls :
        /\ (/\ token[c] # None /\ key[c] # None
            /\ Tok(c).sig # Val(key[c]).mat
            /\ pc[c] # "KeyResolved")
              => /\ pc[c] = "Rejected"
                 /\ Val(outcome[c]).type = "HTTPException"
                 /\ Val(outcome[c]).status = 401
                 /\ claims[c] = None
                 /\ ~ClaimsChecked(c)
        /\ (token[c] # None /\ (claims[c] # None \/ ClaimsChecked(c)))
              => /\ key[c] # None
                 /\ Tok(c).sig = Val(key[c]).mat

C3_Witness ==
    \E c \in Calls :
        /\ Ended(c) /\ key[c] # None
        /\ Tok(c).sig = "forged"
        /\ pc[c] = "Rejected"
        /\ Val(outcome[c]).status = 401

(* --------------------------------- C4 --------------------------------- *)

\* the header of the call names a kid that no key of the fetched set has
KidMissing(c) ==
    /\ jwks[c] # None
    /\ header[c] # None /\ Val(header[c]) # None
    /\ \A k \in KeysOf(Val(jwks[c])) : k.kid # Val(Val(header[c]))

\* C4: a call whose header kid is the kid of no key of the key set it
\* fetched is rejected with 401 "Invalid token key" without a signature
\* verification; the key a call verifies with is a key of the set it
\* fetched with the kid of its header; and the set a call fetches is the
\* set the provider publishes at that moment, so a key the provider has
\* removed is in no set fetched afterwards.
C4_UnknownKidRejected ==
    /\ [](\A c \in Calls :
            /\ KidMissing(c)
                 => /\ pc[c] = "Rejected"
                    /\ outcome[c] = Some(HTTPException(401, "Invalid token key"))
                    /\ key[c] = None
                    /\ claims[c] = None
            /\ key[c] # None
                 => /\ jwks[c] # None
                    /\ Val(key[c]) \in KeysOf(Val(jwks[c]))
                    /\ Some(Val(key[c]).kid) = Val(header[c]))
    /\ [][\A c \in Calls :
            (jwks[c] = None /\ jwks'[c] # None)
                => jwks'[c] = Some(published)]_vars

\* a token signed with K1 and naming it, met after K1 left the key set
C4_Witness ==
    \E c \in Calls :
        /\ Ended(c) /\ KidMissing(c)
        /\ Tok(c).kid = Some("k1") /\ Tok(c).sig = "m1"
        /\ K1 \notin KeysOf(published)
        /\ outcome[c] = Some(HTTPException(401, "Invalid token key"))

(* --------------------------------- C5 --------------------------------- *)

\* every call of the burst missed on the kid k
AllMissedOn(k) == \A c \in Calls : missLog[c] = Some(k)

IssuerDecided(c) == claims[c] # None /\ pc[c] # "SignatureVerified"

\* C6: with tenant "t1" the issuer check passes exactly for the iss claims
\* "https://sts.windows.net/t1/" and
\* "https://login.microsoftonline.com/t1/v2.0"; for every other iss, a
\* missing one too, the call is rejected with 401 "Invalid token issuer".
C6_IssuerExact ==
    \A c \in Calls :
        IssuerDecided(c) =>
            IF Val(claims[c]).iss \in TenantIssuers
            THEN \/ pc[c] \in {"ClaimsValidated", "Accepted"}
                 \/ /\ pc[c] = "Rejected"
                    /\ Val(outcome[c]).detail = "Invalid token audience"
            ELSE /\ pc[c] = "Rejected"
                 /\ outcome[c] = Some(HTTPException(401, "Invalid token issuer"))

C6_Witness ==
    \E c \in Calls :
        /\ IssuerDecided(c)
        /\ Val(claims[c]).iss = Some("https://sts.windows.net/t1")
        /\ outcome[c] = Some(HTTPException(401, "Invalid token issuer"))

(* --------------------------------- C7 --------------------------------- *)

\* C7: with client id "abc123" the audience check passes exactly for the
\* aud claim "abc123"; for every other aud, a missing one too, the call is
\* rejected with 401 "Invalid token audience"; and the audience is looked
\* at only when the issuer check has passed.
C7_AudienceExact ==
    \A c \in Calls :
        /\ (IssuerDecided(c) /\ Val(claims[c]).iss \in TenantIssuers) =>
              IF Val(claims[c]).aud = Some("abc123")
              THEN pc[c] \in {"ClaimsValidated", "Accepted"}
              ELSE /\ pc[c] = "Rejected"
                   /\ outcome[c] =
                        Some(HTTPException(401, "Invalid token audience"))
        /\ (outcome[c] # None
            /\ Val(outcome[c]).detail = "Invalid token audience")
              => /\ claims[c] # None
                 /\ Val(claims[c]).iss \in TenantIssuers

C7_Witness ==
    \E c \in Calls :
        /\ IssuerDecided(c)
        /\ Val(claims[c]).aud = Some("abc1234")
        /\ outcome[c] = Some(HTTPException(401, "Invalid token audience"))

(* --------------------------------- C8 --------------------------------- *)

\* the response of call c goes out in this step
Responds(c) == status[c] = 0 /\ status'[c] # 0

Order(p) ==
    CASE p = "Queued" -> 0
      [] p = "Received" -> 1
      [] p = "HeaderParsed" -> 2
      [] p = "Fetching" -> 3
      [] p = "KeyResolved" -> 4
      [] p = "SignatureVerified" -> 5
      [] p = "ClaimsValidated" -> 6
      [] p = "Accepted" -> 7
      [] p = "Rejected" -> 8

\* C9: a call moves from a stage to the next stage of the pipeline or to
\* Rejected and nowhere else, Accepted and Rejected are left by no step,
\* the call sends at most one fetch, and a call rejected for its audience
\* has sent exactly one.
C9_StagesInOrder ==
    [][\A c \in Calls :
          /\ pc'[c] # pc[c]
               => /\ pc[c] \notin Terminal
                  /\ \/ pc'[c] = "Rejected"
                     \/ Order(pc'[c]) = Order(pc[c]) + 1
          /\ fetches'[c] \in {fetches[c], fetches[c] + 1}
          /\ fetches'[c] <= 1
          /\ (outcome'[c] # None
              /\ Val(outcome'[c]).detail = "Invalid token audience")
               => fetches'[c] = 1]_vars

C9_Witness ==
    \E c \in Calls :
        /\ pc[c] = "Rejected"
        /\ outcome[c] = Some(HTTPException(401, "Invalid token audience"))
        /\ Val(claims[c]).aud = Some("ABC123")
        /\ fetches[c] = 1

(* --------------------------------- C10 -------------------------------- *)

\* C10: a call that has ended has either returned claims or raised an
\* HTTPException of status 401 or 500, never another exception; and it has
\* returned claims only with both settings present, a decoded header, a
\* fetched key set, a key of that set with the header's kid, a signature
\* that verifies with that key, an iss of the tenant and the client's aud,
\* the claims being the payload of the token.
C10_FailClosed ==
    \A c \in Calls :
        /\ Ended(c) =>
              \/ pc[c] = "Accepted" /\ result[c] # None /\ outcome[c] = None
              \/ /\ pc[c] = "Rejected" /\ result[c] = None
                 /\ outcome[c] # None
                 /\ Val(outcome[c]).type = "HTTPException"
                 /\ Val(outcome[c]).status \in {401, 500}
        /\ result[c] # None =>
              /\ pc[c] = "Accepted"
              /\ Configured
              /\ header[c] = Some(Tok(c).kid)
              /\ SignedByFetchedKey(c)
              /\ key[c] # None
              /\ Val(key[c]) \in KeysOf(Val(jwks[c]))
              /\ Val(key[c]).mat = Tok(c).sig
              /\ Tok(c).payload.iss \in TenantIssuers
              /\ Tok(c).payload.aud = Some("abc123")
              /\ result[c] = Some(Tok(c).payload)
        /\ status[c] \in {0, 200, 401, 500}
        /\ status[c] = 200 <=> (pc[c] = "Accepted" /\ token[c] = None)

C10_Witness ==
    \E c \in Calls :
        /\ Ended(c) /\ key[c] # None /\ Tok(c).sig # Val(key[c]).mat
        /\ outcome[c] = Some(HTTPException(401, "Token validation failed"))
        /\ result[c] = None

====
